---- MODULE Spec2Model ----
(***************************************************************************)
(* Campaign-critic: the training notebook (src/unnamed/part_001) fits a    *)
(* StandardScaler and a linear classifier on the meta features of the      *)
(* section1_db table; the suggestions notebook                             *)
(* (src/6_building_suggestions_graph.ipynb) loads both, builds the average *)
(* top-performing project from the same table, standardizes it and a       *)
(* candidate project, weights both by the classifier's coefficients and    *)
(* plots the two scores.  The candidate's meta features come from          *)
(* feature_engineering (TextNormalizer, FeatureExtractor), which is also   *)
(* specified on its own over all short raw texts.  The scraper notebook    *)
(* (src/unnamed/part_000) walks through a range of a sample of projects    *)
(* and saves the pages it fetched; it has a specification of its own.      *)
(*                                                                         *)
(* Numbers are exact rationals [n, d] in lowest terms.  A value of a       *)
(* column or Series is a record [k, q, s]: k = "num" stands for the real   *)
(* q / sqrt(s) (s = 1 for every number that was never divided by a fitted  *)
(* scale), k = "nan" for a missing value / NaN, k = "inf" for +infinity.   *)
(***************************************************************************)
EXTENDS Integers, Sequences, FiniteSets, TLC

(***************************************************************************)
(* Bounds of the model.                                                    *)
(***************************************************************************)
\* the largest number of rows of the section1_db table
MaxRows == 3
\* the same, for the runs that start from saved models of any size
MaxLoadRows == 1
\* the number of n-gram columns that follow the meta features in X_full
\* (250 in the repository's vectorizer_250.pkl)
NumNgrams == 2
\* the largest number of tokens of a raw text given to the extractor
MaxTokens == 3
\* the rows of the random sample the scraper walks through
SampleRows == 3
\* the runs of the scraper loop an exception may end
MaxHalts == 2

(***************************************************************************)
(* Rational arithmetic.                                                    *)
(***************************************************************************)
Abs(x) == IF x < 0 THEN -x ELSE x

RECURSIVE GCD(_, _)
GCD(a, b) == IF b = 0 THEN a ELSE GCD(b, a % b)

\* the rational n/d (d # 0) in lowest terms with a positive denominator
R(n, d) ==
    LET g == GCD(Abs(n), Abs(d))
        sgn == IF d < 0 THEN -1 ELSE 1
    IN  [n |-> sgn * (n \div g), d |-> sgn * (d \div g)]

Zero == R(0, 1)
One == R(1, 1)

RAdd(a, b) == R(a.n * b.d + b.n * a.d, a.d * b.d)
RSub(a, b) == R(a.n * b.d - b.n * a.d, a.d * b.d)
RMul(a, b) == R(a.n * b.n, a.d * b.d)
RDiv(a, b) == R(a.n * b.d, a.d * b.n)
RLt(a, b) == a.n * b.d < b.n * a.d
RLe(a, b) == a.n * b.d <= b.n * a.d

\* floor of a non-negative rational
RFloor(a) == a.n \div a.d

(***************************************************************************)
(* Values of a column: numbers, NaN and +inf, with IEEE-754 arithmetic.    *)
(***************************************************************************)
Num(r) == [k |-> "num", q |-> r, s |-> One]
Int2V(i) == Num(R(i, 1))
NaN == [k |-> "nan", q |-> Zero, s |-> One]
Inf == [k |-> "inf", q |-> One, s |-> One]

IsNum(v) == v.k = "num"
IsNull(v) == v.k = "nan"

\* a / b on float64 columns: x/0 is +inf for x > 0 and NaN for x = 0
VDiv(a, b) ==
    IF IsNull(a) \/ IsNull(b) THEN NaN
    ELSE IF b.q = Zero THEN (IF a.q = Zero THEN NaN ELSE Inf)
    ELSE Num(RDiv(a.q, b.q))

\* a >= b on float64: False as soon as one side is NaN
VGe(a, b) ==
    CASE IsNull(a) \/ IsNull(b) -> FALSE
      [] a.k = "inf" -> TRUE
      [] b.k = "inf" -> FALSE
      [] OTHER -> RLe(b.q, a.q)

\* a < b on float64
VLt(a, b) ==
    CASE IsNull(a) \/ IsNull(b) -> FALSE
      [] a.k = "inf" -> FALSE
      [] b.k = "inf" -> TRUE
      [] OTHER -> RLt(a.q, b.q)

\* the product of a value q/sqrt(s) and a plain number
VMul(a, b) ==
    IF IsNull(a) \/ IsNull(b) THEN NaN
    ELSE [k |-> "num", q |-> RMul(a.q, b.q), s |-> a.s]

(***************************************************************************)
(* The fixed names.                                                        *)
(***************************************************************************)
features ==
    << "num_sents", "num_words", "num_all_caps", "percent_all_caps",
       "num_exclms", "percent_exclms", "num_apple_words",
       "percent_apple_words", "avg_words_per_sent", "num_paragraphs",
       "avg_sents_per_paragraph", "avg_words_per_paragraph",
       "num_images", "num_videos", "num_youtubes", "num_gifs",
       "num_hyperlinks", "num_bolded", "percent_bolded" >>

\* default_predictive_features with a name that is not a column
predictive_features_misspelt ==
    << "num_hyperlink", "num_images", "num_apple_words",
       "num_exclms", "percent_bolded", "num_words" >>

default_predictive_features ==
    << "num_hyperlinks", "num_images", "num_apple_words",
       "num_exclms", "percent_bolded", "num_words" >>

\* labels with the labels of the images and the hyperlinks exchanged
labels_swapped ==
    << "images", "hyperlinks", "innovation words", "exclamation marks",
       "bolded text", "length of description" >>

\* the labels of the y-axis of the plot
labels ==
    << "hyperlinks", "images", "innovation words", "exclamation marks",
       "bolded text", "length of description" >>

Range(s) == {s[i] : i \in DOMAIN s}

\* the position of name in a sequence of names (0 when absent)
Pos(names, name) ==
    IF name \in Range(names)
    THEN CHOOSE i \in DOMAIN names :
            names[i] = name /\ \A j \in 1..(i - 1) : names[j] # name
    ELSE 0

NF == Len(features)

(***************************************************************************)
(* feature_engineering: TextNormalizer and FeatureExtractor.  Raw HTML is  *)
(* a sequence of tokens: words, the marks "." and "!", and tags.           *)
(***************************************************************************)
Words == {"we", "NEW", "innovative", "INNOVATIVE", "42"}
Marks == {".", "!"}
Tags == {"<p>", "<b>", "</b>", "<img>", "<video>", "<youtube>", "<gif>", "<a>"}
Tokens == Words \cup Marks \cup Tags

\* the domain-specific innovation keywords, in lower case
apple_words == {"innovative"}

Lower(w) ==
    CASE w = "NEW" -> "new"
      [] w = "INNOVATIVE" -> "innovative"
      [] OTHER -> w

Upper(w) ==
    CASE w = "we" -> "WE"
      [] w = "innovative" -> "INNOVATIVE"
      [] OTHER -> w

\* the word holds an alphabetic character
HasAlpha(w) == w # "42"

\* every alphabetic character is upper case, and there is one
IsAllCaps(w) == HasAlpha(w) /\ Upper(w) = w

\* the keywords are counted whatever their case
IsAppleWord(w) == Lower(w) \in apple_words

\* the number of characters of a word
NumChars(w) ==
    CASE w \in {"we", "42"} -> 2
      [] w = "NEW" -> 3
      [] OTHER -> 10

\* the normalizer before the first token: the words read, the sentences
\* closed, the words of the open sentence, and the structural counts
NormalizerStart ==
    [text |-> <<>>, sentences |-> <<>>, sentence |-> <<>>,
     paragraphs |-> 0, bolded |-> 0, depth |-> 0, bolded_chars |-> 0,
     images |-> 0, videos |-> 0, youtubes |-> 0, gifs |-> 0, hyperlinks |-> 0]

\* a mark or a paragraph boundary closes the open sentence, if it has words
EndSentence(st) ==
    IF st.sentence = <<>> THEN st
    ELSE [st EXCEPT !.sentences = Append(@, st.sentence), !.sentence = <<>>]

\* the normalizer after one more token; a closing tag without its opening
\* tag is skipped, an opening tag never closed runs to the end
Feed(st, tok) ==
    CASE tok \in Words ->
            [st EXCEPT !.text = Append(@, tok),
                       !.sentence = Append(@, tok),
                       !.bolded_chars = @ + (IF st.depth > 0 THEN NumChars(tok) ELSE 0)]
      [] tok \in Marks -> EndSentence(st)
      [] tok = "<p>" -> [EndSentence(st) EXCEPT !.paragraphs = @ + 1]
      [] tok = "<b>" -> [st EXCEPT !.bolded = @ + 1, !.depth = @ + 1]
      [] tok = "</b>" -> [st EXCEPT !.depth = IF @ > 0 THEN @ - 1 ELSE 0]
      [] tok = "<img>" -> [st EXCEPT !.images = @ + 1]
      [] tok = "<video>" -> [st EXCEPT !.videos = @ + 1]
      [] tok = "<youtube>" -> [st EXCEPT !.youtubes = @ + 1]
      [] tok = "<gif>" -> [st EXCEPT !.gifs = @ + 1]
      [] tok = "<a>" -> [st EXCEPT !.hyperlinks = @ + 1]
      [] OTHER -> st

RECURSIVE Scan(_, _, _)
Scan(raw, i, st) ==
    IF i > Len(raw) THEN EndSentence(st) ELSE Scan(raw, i + 1, Feed(st, raw[i]))

\* the normalized text has not been computed
NoSection ==
    [raised |-> "", text |-> <<>>, sentences |-> <<>>, total_chars |-> 0,
     paragraphs |-> 0, bolded |-> 0, bolded_chars |-> 0,
     images |-> 0, videos |-> 0, youtubes |-> 0, gifs |-> 0, hyperlinks |-> 0]

RECURSIVE SumChars(_)
SumChars(text) == IF text = <<>> THEN 0 ELSE NumChars(Head(text)) + SumChars(Tail(text))

\* TextNormalizer that takes a closing tag without its opening tag, or an
\* input without any token, for an error
TextNormalizerStrict(raw) ==
    IF raw = <<>> \/ \E i \in DOMAIN raw :
                        /\ raw[i] = "</b>"
                        /\ Scan(SubSeq(raw, 1, i - 1), 1, NormalizerStart).depth = 0
    THEN [NoSection EXCEPT !.raised = "ValueError"]
    ELSE LET st == Scan(raw, 1, NormalizerStart)
         IN  [raised |-> "", text |-> st.text, sentences |-> st.sentences,
              total_chars |-> SumChars(st.text),
              paragraphs |-> st.paragraphs, bolded |-> st.bolded,
              bolded_chars |-> st.bolded_chars,
              images |-> st.images, videos |-> st.videos, youtubes |-> st.youtubes,
              gifs |-> st.gifs, hyperlinks |-> st.hyperlinks]

\* TextNormalizer: the text without marks and tags, its sentences, and the
\* structural counts
TextNormalizer(raw) ==
    LET st == Scan(raw, 1, NormalizerStart)
    IN  [raised |-> "", text |-> st.text, sentences |-> st.sentences,
         total_chars |-> SumChars(st.text),
         paragraphs |-> st.paragraphs, bolded |-> st.bolded,
         bolded_chars |-> st.bolded_chars,
         images |-> st.images, videos |-> st.videos, youtubes |-> st.youtubes,
         gifs |-> st.gifs, hyperlinks |-> st.hyperlinks]

\* the number of tokens of raw that satisfy the test given as a set
RECURSIVE CountIn(_, _)
CountIn(seq, S) ==
    IF seq = <<>> THEN 0
    ELSE (IF Head(seq) \in S THEN 1 ELSE 0) + CountIn(Tail(seq), S)

\* SafeRatio without the test of the denominator
UnsafeRatio(num, den) == IF den = 0 THEN NaN ELSE Num(R(num, den))

\* num / den, and 0 when den is 0
SafeRatio(num, den) == IF den = 0 THEN Int2V(0) ELSE Num(R(num, den))

\* Shares with the capitals taken per sentence
SharesPerSentence(n, exclms) ==
    [percent_all_caps |-> SafeRatio(CountIn(n.text, {w \in Words : IsAllCaps(w)}), Len(n.sentences)),
     percent_exclms |-> SafeRatio(exclms, Len(n.sentences)),
     percent_apple_words |-> SafeRatio(CountIn(n.text, {w \in Words : IsAppleWord(w)}), Len(n.text)),
     percent_bolded |-> SafeRatio(n.bolded_chars, n.total_chars)]

\* the four ratios of a normalized text with exclms exclamation marks
Shares(n, exclms) ==
    [percent_all_caps |-> SafeRatio(CountIn(n.text, {w \in Words : IsAllCaps(w)}), Len(n.text)),
     percent_exclms |-> SafeRatio(exclms, Len(n.sentences)),
     percent_apple_words |-> SafeRatio(CountIn(n.text, {w \in Words : IsAppleWord(w)}), Len(n.text)),
     percent_bolded |-> SafeRatio(n.bolded_chars, n.total_chars)]

\* the meta features of a normalized text with exclms exclamation marks
MetaFeatures(n, exclms) ==
    LET shares == Shares(n, exclms)
    IN  [num_sents |-> Int2V(Len(n.sentences)),
         num_words |-> Int2V(Len(n.text)),
         num_all_caps |-> Int2V(CountIn(n.text, {w \in Words : IsAllCaps(w)})),
         percent_all_caps |-> shares.percent_all_caps,
         num_exclms |-> Int2V(exclms),
         percent_exclms |-> shares.percent_exclms,
         num_apple_words |-> Int2V(CountIn(n.text, {w \in Words : IsAppleWord(w)})),
         percent_apple_words |-> shares.percent_apple_words,
         avg_words_per_sent |-> SafeRatio(Len(n.text), Len(n.sentences)),
         num_paragraphs |-> Int2V(n.paragraphs),
         avg_sents_per_paragraph |-> SafeRatio(Len(n.sentences), n.paragraphs),
         avg_words_per_paragraph |-> SafeRatio(Len(n.text), n.paragraphs),
         num_images |-> Int2V(n.images),
         num_videos |-> Int2V(n.videos),
         num_youtubes |-> Int2V(n.youtubes),
         num_gifs |-> Int2V(n.gifs),
         num_hyperlinks |-> Int2V(n.hyperlinks),
         num_bolded |-> Int2V(n.bolded),
         percent_bolded |-> shares.percent_bolded]

\* extract that gives no value for a text without words
extract_or_missing(raw) ==
    LET n == TextNormalizer(raw)
        value == MetaFeatures(n, CountIn(raw, {"!"}))
    IN  [i \in 1..NF |-> IF n.text = <<>> THEN NaN ELSE value[features[i]]]

\* FeatureExtractor.extract: the 19 meta features, in the order of features
extract(raw) ==
    LET value == MetaFeatures(TextNormalizer(raw), CountIn(raw, {"!"}))
    IN  [i \in 1..NF |-> value[features[i]]]

\* what the scraper hands over for a hyperlink: [status, html], status "ok"
\* with the page, "absent" or "failed" without
NoPage == [status |-> "absent", html |-> <<>>]

\* the scraper has not been asked yet
Pending == [status |-> "pending", html |-> <<>>]

\* the page is absent, empty or a failure indicator
Unavailable(page) == page.status # "ok" \/ page.html = <<>>

\* process_project that takes a page it could not get for an empty one
process_project_zeroed(page) ==
    [raised |-> "",
     meta_features |-> extract(page.html),
     processed_section |-> TextNormalizer(page.html)]

\* feature_engineering.process_project: the meta features and the processed
\* section of the page, or the input error
process_project(page) ==
    IF Unavailable(page)
    THEN [raised |-> "InputUnavailable", meta_features |-> <<>>,
          processed_section |-> NoSection]
    ELSE [raised |-> "",
          meta_features |-> extract(page.html),
          processed_section |-> TextNormalizer(page.html)]

(***************************************************************************)
(* The section1_db table.  A row is [index, data]: its row label and a     *)
(* function from column name to value.                                     *)
(***************************************************************************)
base_columns == {"pledged", "goal"} \cup Range(features)

\* a row with the given pledged and goal and the feature values of f
MkData(pledged, goal, f) ==
    [c \in base_columns |->
        CASE c = "pledged" -> pledged
          [] c = "goal" -> goal
          [] OTHER -> f[c]]

AllZero == [c \in Range(features) |-> Int2V(0)]
AllNull == [c \in Range(features) |-> NaN]
TwoImages == [AllZero EXCEPT !["num_images"] = Int2V(2)]
Partial ==
    [AllZero EXCEPT !["num_images"] = Int2V(4),
                    !["num_hyperlinks"] = Int2V(3),
                    !["percent_bolded"] = Num(R(1, 2)),
                    !["num_words"] = NaN]

\* the rows the database may hold
RowData ==
    { MkData(Int2V(200), Int2V(100), AllZero),      \* ratio 2
      MkData(Int2V(50), Int2V(100), TwoImages),     \* ratio 1/2
      MkData(Int2V(125), Int2V(100), Partial),      \* ratio 5/4, a missing value
      MkData(Int2V(200), Int2V(100), AllNull),      \* ratio 2, no feature at all
      MkData(Int2V(100), Int2V(0), TwoImages),      \* goal 0: ratio +inf
      MkData(Int2V(0), Int2V(0), Partial),          \* 0/0: ratio NaN
      MkData(Int2V(50), NaN, AllZero) }             \* goal missing: ratio NaN

RECURSIVE SeqsUpTo(_, _)
SeqsUpTo(S, n) ==
    IF n = 0 THEN {<<>>}
    ELSE LET shorter == SeqsUpTo(S, n - 1)
         IN  shorter \cup {Append(t, x) : t \in {u \in shorter : Len(u) = n - 1}, x \in S}

\* the tables of at most n rows, labelled 0, 1, ... as read_sql_query
\* returns them
TablesUpTo(n) ==
    { [i \in 1..Len(t) |-> [index |-> i - 1, data |-> t[i]]] : t \in SeqsUpTo(RowData, n) }

Tables == TablesUpTo(MaxRows)

\* saved scalers: the parameters of a scaler fitted on k columns
ScalerBlobs ==
    { [mean_ |-> [j \in 1..k |-> R(j, 2)], var_ |-> [j \in 1..k |-> R(4, 1)]] :
        k \in {1, NF - 1, NF, NF + 1} }

\* saved classifiers: a weight vector of k entries
\* (the last one gives num_images, the 13th feature, the weight 0)
ClassifierBlobs ==
    { [i \in 1..k |-> Int2V(i - 10)] : k \in {NF - 1, NF, NF + NumNgrams} }
      \cup { [i \in 1..NF |-> Int2V(i - 13)] }

\* the quantile of the top-performer cut (0.95 in the notebook)
Quantiles == {R(1, 2), R(19, 20)}

\* the quantiles a reference may be built with
CohortQuantiles == Quantiles \cup {Zero, One}

\* feature subsets a caller may ask scores for
SubsetChoices ==
    { default_predictive_features,
      Append(default_predictive_features, "typo_feature"),
      << "typo_feature" >> }

\* further subsets: the default one in another order, and one that asks for
\* the videos instead of the words
OtherSubsets ==
    { << "num_images", "num_hyperlinks", "num_apple_words",
         "num_exclms", "percent_bolded", "num_words" >>,
      << "num_hyperlinks", "num_images", "num_apple_words",
         "num_exclms", "percent_bolded", "num_videos" >> }

\* the feature list of the training notebook
train_features ==
    << "num_sents", "num_words", "num_all_caps", "percent_all_caps",
       "num_exclms", "percent_exclms", "num_apple_words",
       "percent_apple_words", "avg_words_per_sent", "num_paragraphs",
       "avg_sents_per_paragraph", "avg_words_per_paragraph",
       "num_images", "num_videos", "num_youtubes", "num_gifs",
       "num_hyperlinks", "num_bolded", "percent_bolded" >>

\* X_full = sparse.hstack([X_std_sparse, X_ngrams]): what every column of
\* the training matrix holds, the columns of X_std = X[features] first
X_full_columns ==
    [j \in 1..(Len(train_features) + NumNgrams) |->
        IF j <= Len(train_features) THEN train_features[j] ELSE "n-gram"]

\* coefficient vectors a fit of the classifier may end with: one weight per
\* column of X_full, the 19 meta features first, then the n-grams
CoefChoices ==
    { [i \in 1..(NF + NumNgrams) |-> Int2V(i - 10)],
      [i \in 1..(NF + NumNgrams) |-> Num(R(2 * i + 1, 4))] }

\* what the scraper may hand over for the hyperlink of the candidate project
CandidatePages ==
    { NoPage,
      [status |-> "failed", html |-> <<>>],
      [status |-> "ok", html |-> <<>>],
      [status |-> "ok", html |-> << "<img>", "<img>" >>],
      [status |-> "ok",
       html |-> << "<p>", "<b>", "NEW", "</b>", "innovative", "we", "!",
                   "<img>", "<a>", "<a>" >>] }

\* the raw texts of at most MaxTokens tokens
RawTexts == SeqsUpTo(Tokens, MaxTokens)

(***************************************************************************)
(* The pandas operations of the notebooks.                                 *)
(***************************************************************************)
\* df['percent_funded'] = df['pledged'] / df['goal']: the column is added to
\* (or replaced in) the frame itself
AssignPercentFunded(df) ==
    [i \in DOMAIN df |->
        [index |-> df[i].index,
         data |-> [c \in DOMAIN df[i].data \cup {"percent_funded"} |->
                     IF c = "percent_funded"
                     THEN VDiv(df[i].data["pledged"], df[i].data["goal"])
                     ELSE df[i].data[c]]]]

\* v with x inserted before the first value greater than x (v ascending,
\* +inf last)
RECURSIVE Insert(_, _)
Insert(v, x) ==
    IF v = <<>> THEN <<x>>
    ELSE IF VLt(x, Head(v)) THEN <<x>> \o v
    ELSE <<Head(v)>> \o Insert(Tail(v), x)

RECURSIVE Sorted(_)
Sorted(v) == IF v = <<>> THEN <<>> ELSE Insert(Sorted(Tail(v)), Head(v))

Min(a, b) == IF a < b THEN a ELSE b

\* The libraries the notebooks import are not pinned.  Where their releases
\* differ in what a call of the notebooks does, the release is a parameter:
\*   numpy   "weights": percentile computes a*(1-t) + b*t,
\*           "lerp":    percentile computes a + (b-a)*t;
\*   sklearn "strict":  StandardScaler.transform rejects NaN (before 0.20),
\*           "nanpass": it passes NaN through (0.20 to 0.22);
\*   pandas  "reindex": Series[list] gives NaN for a missing label (before 1.0),
\*           "strict":  it raises KeyError (1.0 and later);
\*   matplotlib "lenient": tick labels fewer than the ticks leave the last
\*                         ticks without text (before 3.3),
\*              "strict":  yticks raises ValueError unless there is one label
\*                         per tick (3.3 and later).
LibBuilds ==
    [numpy |-> {"weights", "lerp"},
     sklearn |-> {"strict", "nanpass"},
     pandas |-> {"reindex", "strict"},
     matplotlib |-> {"lenient", "strict"}]

\* Lerp starting from b instead of a
LerpBeyond(build, a, b, t) ==
    CASE IsNum(a) /\ IsNum(b) -> Num(RAdd(b.q, RMul(RSub(b.q, a.q), t)))
      [] IsNum(a) /\ ~IsNum(b) -> IF t = Zero THEN NaN ELSE Inf
      [] OTHER -> IF t = Zero \/ build = "lerp" THEN NaN ELSE Inf

\* the linear interpolation between neighbours a <= b with weight t of b,
\* in IEEE-754: inf * 0 and inf - inf are NaN
Lerp(build, a, b, t) ==
    CASE IsNum(a) /\ IsNum(b) -> Num(RAdd(a.q, RMul(RSub(b.q, a.q), t)))
      [] IsNum(a) /\ ~IsNum(b) -> IF t = Zero THEN NaN ELSE Inf
      [] OTHER -> IF t = Zero \/ build = "lerp" THEN NaN ELSE Inf

\* Series.dropna(), from position i on
RECURSIVE DropNa(_, _)
DropNa(col, i) ==
    IF i > Len(col) THEN <<>>
    ELSE (IF IsNull(col[i]) THEN <<>> ELSE <<col[i]>>) \o DropNa(col, i + 1)

\* Quantile on the values in the order of the rows
QuantileUnsorted(build, col, qq) ==
    LET v == DropNa(col, 1)
        N == Len(v)
        indices == RMul(qq, R(N - 1, 1))
        below == RFloor(indices)
        above == Min(below + 1, N - 1)
        weights_above == RSub(indices, R(below, 1))
    IN  IF N = 0 THEN NaN
        ELSE Lerp(build, v[below + 1], v[above + 1], weights_above)

\* Series.quantile(q), interpolation='linear': missing values are skipped,
\* an empty Series gives NaN
Quantile(build, col, qq) ==
    LET v == Sorted(DropNa(col, 1))
        N == Len(v)
        indices == RMul(qq, R(N - 1, 1))
        below == RFloor(indices)
        above == Min(below + 1, N - 1)
        weights_above == RSub(indices, R(below, 1))
    IN  IF N = 0 THEN NaN
        ELSE Lerp(build, v[below + 1], v[above + 1], weights_above)

Column(df, c) == [i \in DOMAIN df |-> df[i].data[c]]

\* the rows of df, from position i on, whose mask entry is True
RECURSIVE BooleanIndex(_, _, _)
BooleanIndex(df, mask, i) ==
    IF i > Len(df) THEN <<>>
    ELSE (IF mask[i] THEN <<df[i]>> ELSE <<>>) \o BooleanIndex(df, mask, i + 1)

\* AtLeast with > in the place of >=
Above(df, limit) == [i \in DOMAIN df |-> VLt(limit, df[i].data["percent_funded"])]

\* df['percent_funded'] >= limit
AtLeast(df, limit) == [i \in DOMAIN df |-> VGe(df[i].data["percent_funded"], limit)]

\* df[df['percent_funded'] >= limit]
SelectTop(df, limit) == BooleanIndex(df, AtLeast(df, limit), 1)

\* df[features]: the feature columns, in the order of the list
SelectFeatures(df) ==
    [i \in DOMAIN df |->
        [index |-> df[i].index,
         vals |-> [j \in 1..NF |-> df[i].data[features[j]]]]]

\* DropAllNull with any() in the place of all()
DropAnyNull(X) ==
    BooleanIndex(X, [i \in DOMAIN X |-> ~(\E j \in 1..NF : IsNull(X[i].vals[j]))], 1)

\* X[~X.isnull().all(axis=1)]
DropAllNull(X) ==
    BooleanIndex(X, [i \in DOMAIN X |-> ~(\A j \in 1..NF : IsNull(X[i].vals[j]))], 1)

\* X.fillna(0)
FillNa(X) ==
    [i \in DOMAIN X |->
        [index |-> X[i].index,
         vals |-> [j \in 1..NF |-> IF IsNull(X[i].vals[j]) THEN Int2V(0) ELSE X[i].vals[j]]]]

RECURSIVE SumCol(_, _, _)
SumCol(X, j, i) ==
    IF i > Len(X) THEN Zero ELSE RAdd(X[i].vals[j].q, SumCol(X, j, i + 1))

\* X.mean(): the mean of every column; NaN for a frame without rows
Mean(X) ==
    [j \in 1..NF |->
        IF Len(X) = 0 THEN NaN
        ELSE Num(RDiv(SumCol(X, j, 1), R(Len(X), 1)))]

(***************************************************************************)
(* Series: [index, values], two sequences of the same length.              *)
(***************************************************************************)
EmptySeries == [index |-> <<>>, values |-> <<>>]

\* the value of label name (the Series' labels are distinct)
At(ser, name) == ser.values[Pos(ser.index, name)]

\* a call's outcome: the exception raised ("" for none) and the value returned
Raise(e) == [raised |-> e, out |-> EmptySeries]
Return(v) == [raised |-> "", out |-> v]

\* NewSeries that aligns data of another length to the index: cut, or padded
\* with NaN
NewSeriesAligned(data, index) ==
    Return([index |-> index,
            values |-> [i \in DOMAIN index |-> IF i <= Len(data) THEN data[i] ELSE NaN]])

\* pd.Series(data, index=index)
NewSeries(data, index) ==
    IF Len(data) # Len(index) THEN Raise("ValueError")
    ELSE Return([index |-> index, values |-> data])

\* ser[keys] for a list of labels
GetItems(build, ser, keys) ==
    LET missing == {i \in DOMAIN keys : keys[i] \notin Range(ser.index)}
    IN  IF missing = {}
        THEN Return([index |-> keys, values |-> [i \in DOMAIN keys |-> At(ser, keys[i])]])
        ELSE IF missing = DOMAIN keys \/ build = "strict"
        THEN Raise("KeyError")
        ELSE Return([index |-> keys,
                     values |-> [i \in DOMAIN keys |->
                                   IF i \in missing THEN NaN ELSE At(ser, keys[i])]])

\* NpMultiply with the two Series added instead of multiplied
NpAdd(a, b) ==
    [index |-> a.index,
     values |-> [i \in DOMAIN a.values |->
                   IF IsNull(a.values[i]) \/ IsNull(b.values[i]) THEN NaN
                   ELSE [k |-> "num", q |-> RAdd(a.values[i].q, b.values[i].q),
                         s |-> a.values[i].s]]]

\* np.multiply(a, b) of two Series with the same labels: element by element,
\* labelled as a
NpMultiply(a, b) ==
    [index |-> a.index,
     values |-> [i \in DOMAIN a.values |-> VMul(a.values[i], b.values[i])]]

\* Score with the coefficients taken by position instead of by label
ScoreUnaligned(build, std, ranks, subset) ==
    LET a == GetItems(build, std, subset)
    IN  IF a.raised # "" THEN a
        ELSE Return([index |-> a.out.index,
                     values |-> [i \in DOMAIN a.out.values |->
                                   VMul(a.out.values[i], ranks.values[i])]])

\* np.multiply(std[subset], ranks[subset])
Score(build, std, ranks, subset) ==
    LET a == GetItems(build, std, subset)
        b == GetItems(build, ranks, subset)
    IN  IF a.raised # "" THEN a
        ELSE IF b.raised # "" THEN b
        ELSE Return(NpMultiply(a.out, b.out))

(***************************************************************************)
(* StandardScaler: [mean_, var_]; scale_ is sqrt(var_), and 1 where var_   *)
(* is 0.  An unfitted scaler has no parameters.                            *)
(***************************************************************************)
Unfitted == [mean_ |-> <<>>, var_ |-> <<>>]

RECURSIVE SumSq(_, _, _, _)
SumSq(X, j, m, i) ==
    IF i > Len(X) THEN Zero
    ELSE LET dd == RSub(X[i].vals[j].q, m)
         IN  RAdd(RMul(dd, dd), SumSq(X, j, m, i + 1))

\* scaler.fit(X), X with at least one row and no missing value
Fit(X) ==
    LET mean == [j \in 1..NF |-> RDiv(SumCol(X, j, 1), R(Len(X), 1))]
    IN  [mean_ |-> mean,
         var_ |-> [j \in 1..NF |-> RDiv(SumSq(X, j, mean[j], 1), R(Len(X), 1))]]

\* scale_ squared
Scale2(var) == IF var = Zero THEN One ELSE var

\* (x - mean_) / scale_ for the sample x; parameters of length 1 broadcast
ZScores(sc, x) ==
    [j \in DOMAIN x |->
        LET p == IF Len(sc.mean_) = 1 THEN 1 ELSE j
        IN  IF IsNull(x[j]) THEN NaN
            ELSE [k |-> "num", q |-> RSub(x[j].q, sc.mean_[p]), s |-> Scale2(sc.var_[p])]]

\* Transform as fit_transform: the scaler is fitted again, on the sample
TransformRefit(build, sc, x) ==
    LET fitted == Fit(<<[index |-> 0, vals |-> [j \in DOMAIN x |-> IF IsNull(x[j]) THEN Int2V(0) ELSE x[j]]]>>)
    IN  [raised |-> "", self |-> fitted, out |-> ZScores(fitted, x)]

\* Transform as a scaler that folds every sample into its mean
TransformUpdating(build, sc, x) ==
    IF Len(sc.mean_) # Len(x) \/ \E j \in DOMAIN x : IsNull(x[j])
    THEN [raised |-> "ValueError", self |-> sc, out |-> <<>>]
    ELSE [raised |-> "",
          self |-> [sc EXCEPT !.mean_ =
                      [j \in DOMAIN x |-> RDiv(RAdd(sc.mean_[j], x[j].q), R(2, 1))]],
          out |-> ZScores(sc, x)]

\* scaler.transform([x]).ravel(): the scaler after the call and the array
\* returned
Transform(build, sc, x) ==
    IF (\E j \in DOMAIN x : IsNull(x[j])) /\ build = "strict"
    THEN [raised |-> "ValueError", self |-> sc, out |-> <<>>]
    ELSE IF Len(sc.mean_) \notin {1, Len(x)}
    THEN [raised |-> "ValueError", self |-> sc, out |-> <<>>]
    ELSE [raised |-> "", self |-> sc, out |-> ZScores(sc, x)]

\* scaler.fit_transform(X): the scaler after the call and the standardized
\* rows
FitTransform(X) ==
    IF Len(X) = 0
    THEN [raised |-> "ValueError", self |-> Unfitted, out |-> <<>>]
    ELSE [raised |-> "", self |-> Fit(X),
          out |-> [i \in DOMAIN X |-> ZScores(Fit(X), X[i].vals)]]

(***************************************************************************)
(* State.                                                                  *)
(***************************************************************************)
VARIABLES
    pc,                 \* the cell to run next, "done" after the last one
    failed,             \* the exception that stopped the run ("" for none)
    env,                \* the library releases the run has shown so far
    section1_db,        \* the table of the PostgreSQL database
    q,                  \* the quantile of the top-performer cut
    predictive_features,
    \* the training notebook
    train_X_cleaned, train_scaler, clf_full,
    \* data/trained_models/trained_scaler.pkl and trained_classifier.pkl
    scaler_pkl, classifier_pkl,
    \* the suggestions notebook
    scaler, clf, section1_df_full, quantile_limit, top_projects, X_cleaned,
    avg_top_projects, top_project_std,
    scraped_html,       \* what the scraper handed over for the hyperlink
    meta_features, processed_section, feature_vector_std,
    feature_ranks, user_project_score, top_project_score,
    messy, tidy,
    yticklabels,        \* the text of the ticks of the y-axis, top to bottom
    io_log,             \* the calls made so far that read or write outside
                        \* the process, each with the cell that made it
    \* the scraper notebook
    scrape_pc,          \* where the scraper notebook stands
    starting_point, ending_point,
    iterrows,           \* the rows df_sample[starting_point:ending_point]
                        \* still has to yield
    request_count,
    displayed,          \* the output of the loop cell (clear_output keeps
                        \* the last line only)
    scraped_collection,
    reported,           \* the printed '# of projects scraped'
    file_name,          \* the two numbers in the name of the saved file
    halts,              \* how many runs of the loop an exception has ended
    runs,               \* history: the starting_point of every run
    shown               \* history: every request number ever displayed

train_vars == <<train_X_cleaned, train_scaler, clf_full>>
pkl_vars == <<scaler_pkl, classifier_pkl>>
input_vars == <<section1_db, q, predictive_features>>
cohort_vars == <<section1_df_full, quantile_limit, top_projects, X_cleaned>>
ref_vars == <<avg_top_projects, top_project_std>>
cand_vars == <<scraped_html, meta_features, processed_section, feature_vector_std>>
score_vars == <<feature_ranks, user_project_score, top_project_score>>
plot_vars == <<messy, tidy, yticklabels>>
scrape_vars ==
    <<scrape_pc, starting_point, ending_point, iterrows, request_count,
      displayed, scraped_collection, reported, file_name, halts, runs, shown>>
vars ==
    <<pc, failed, env, input_vars, train_vars, pkl_vars, scaler, clf,
      cohort_vars, ref_vars, cand_vars, score_vars, plot_vars, io_log,
      scrape_vars>>

\* the cells in the order they run
Order ==
    << "TrainPrepare", "TrainFit", "TrainClassifier", "TrainDump",
       "LoadModels", "LoadTable", "SelectTopProjects", "AverageTopProjects",
       "ProcessProject", "FeatureRanks", "WeightedScores", "TidyScores",
       "DrawPlot", "done" >>

\* the cell after step
NextStep(step) == Order[Pos(Order, step) + 1]

\* cell step has run to its end
Ran(step) == Pos(Order, pc) > Pos(Order, step)

\* the releases of lib the run may still turn out to use
Builds(lib) == IF env[lib] = "any" THEN LibBuilds[lib] ELSE {env[lib]}

\* env once release b of lib has shown itself (known: the call's outcome
\* tells the releases apart)
Pin(lib, b, known) == IF known THEN [env EXCEPT ![lib] = b] ELSE env

Running(step) == pc = step /\ failed = ""

\* the loop cell has displayed nothing; no file has been saved
NoOutput == [request |-> -1, row_id |-> -1]
NoFile == [first |-> -1, last |-> -1]

\* no cell of the scraper notebook is run
ScraperOff ==
    /\ scrape_pc = "off"
    /\ starting_point = 0
    /\ ending_point = 0
    /\ iterrows = <<>>
    /\ request_count = 0
    /\ displayed = NoOutput
    /\ scraped_collection = <<>>
    /\ reported = -1
    /\ file_name = NoFile
    /\ halts = 0
    /\ runs = <<>>
    /\ shown = <<>>

InitNotebook ==
    /\ failed = ""
    /\ io_log = <<>>
    /\ env = [numpy |-> "any", sklearn |-> "any", pandas |-> "any",
              matplotlib |-> "any"]
    /\ train_X_cleaned = <<>>
    /\ train_scaler = Unfitted
    /\ clf_full = <<>>
    /\ scaler = Unfitted
    /\ clf = <<>>
    /\ section1_df_full = <<>>
    /\ quantile_limit = NaN
    /\ top_projects = <<>>
    /\ X_cleaned = <<>>
    /\ avg_top_projects = <<>>
    /\ top_project_std = EmptySeries
    /\ meta_features = <<>>
    /\ processed_section = NoSection
    /\ feature_vector_std = EmptySeries
    /\ feature_ranks = EmptySeries
    /\ user_project_score = EmptySeries
    /\ top_project_score = EmptySeries
    /\ messy = <<>>
    /\ tidy = <<>>
    /\ yticklabels = <<>>

\* both notebooks, the training one first; no model has been saved yet
Init ==
    /\ InitNotebook
    /\ ScraperOff
    /\ section1_db \in Tables
    /\ q \in Quantiles
    /\ predictive_features \in SubsetChoices
    /\ scraped_html = Pending
    /\ pc = "TrainPrepare"
    /\ scaler_pkl = Unfitted
    /\ classifier_pkl = <<>>

\* both notebooks on a table of at most MaxLoadRows rows
InitTrain ==
    /\ InitNotebook
    /\ ScraperOff
    /\ section1_db \in TablesUpTo(MaxLoadRows)
    /\ q \in Quantiles
    /\ predictive_features \in SubsetChoices
    /\ scraped_html = Pending
    /\ pc = "TrainPrepare"
    /\ scaler_pkl = Unfitted
    /\ classifier_pkl = <<>>

\* the suggestions notebook alone, on whatever models the two files hold
InitLoad ==
    /\ InitNotebook
    /\ ScraperOff
    /\ section1_db \in TablesUpTo(MaxLoadRows)
    /\ q \in Quantiles
    /\ predictive_features \in SubsetChoices \cup OtherSubsets
    /\ scraped_html = Pending
    /\ pc = "LoadModels"
    /\ scaler_pkl \in ScalerBlobs
    /\ classifier_pkl \in ClassifierBlobs

\* the cells that build the reference, on any table and any quantile, with a
\* scaler of 19 parameters in the file
InitCohort ==
    /\ InitNotebook
    /\ ScraperOff
    /\ section1_db \in Tables
    /\ q \in CohortQuantiles
    /\ predictive_features = default_predictive_features
    /\ scraped_html = Pending
    /\ pc = "LoadModels"
    /\ scaler_pkl = [mean_ |-> [j \in 1..NF |-> R(j, 2)], var_ |-> [j \in 1..NF |-> R(4, 1)]]
    /\ classifier_pkl = [i \in 1..NF |-> Int2V(i - 10)]

\* TextNormalizer and FeatureExtractor on their own, on any raw text
InitExtract ==
    /\ InitNotebook
    /\ ScraperOff
    /\ section1_db = <<>>
    /\ q = R(19, 20)
    /\ predictive_features = default_predictive_features
    /\ scraped_html \in {[status |-> "ok", html |-> t] : t \in RawTexts}
    /\ pc = "TextNormalizer"
    /\ scaler_pkl = Unfitted
    /\ classifier_pkl = <<>>

(***************************************************************************)
(* The training notebook.                                                  *)
(***************************************************************************)
\* X = section1_df_full[features]; drop the rows without data; fillna(0)
TrainPrepare ==
    /\ Running("TrainPrepare")
    /\ train_X_cleaned' = FillNa(DropAllNull(SelectFeatures(section1_db)))
    /\ pc' = NextStep(pc)
    /\ io_log' = Append(io_log, [cell |-> pc, call |-> "read_sql_query"])
    /\ UNCHANGED <<scrape_vars, plot_vars, failed, env, input_vars, train_scaler, clf_full, pkl_vars,
                   scaler, clf, cohort_vars, ref_vars, cand_vars, score_vars>>

\* scaler = StandardScaler(); X_std = scaler.fit_transform(X_cleaned)
TrainFit ==
    /\ Running("TrainFit")
    /\ \E r \in {FitTransform(train_X_cleaned)} :
        /\ failed' = r.raised
        /\ train_scaler' = r.self
        /\ pc' = IF r.raised = "" THEN NextStep(pc) ELSE pc
    /\ UNCHANGED <<io_log, scrape_vars, plot_vars, env, input_vars, train_X_cleaned, clf_full, pkl_vars,
                   scaler, clf, cohort_vars, ref_vars, cand_vars, score_vars>>

\* clf_full.fit(X_full, y_enc): one weight per column of X_full
TrainClassifier ==
    /\ Running("TrainClassifier")
    /\ \E coef_ \in CoefChoices : clf_full' = coef_
    /\ pc' = NextStep(pc)
    /\ io_log' = Append(io_log, [cell |-> pc, call |-> "joblib.load"])
    /\ UNCHANGED <<scrape_vars, plot_vars, failed, env, input_vars, train_X_cleaned, train_scaler,
                   pkl_vars, scaler, clf, cohort_vars, ref_vars, cand_vars,
                   score_vars>>

\* joblib.dump(clf_full, 'trained_classifier.pkl');
\* joblib.dump(scaler, 'trained_scaler.pkl'): the (commented) calls that wrote
\* the files the suggestions notebook loads
TrainDump ==
    /\ Running("TrainDump")
    /\ scaler_pkl' = train_scaler
    /\ classifier_pkl' = clf_full
    /\ pc' = NextStep(pc)
    /\ UNCHANGED <<io_log, scrape_vars, plot_vars, failed, env, input_vars, train_vars, scaler, clf,
                   cohort_vars, ref_vars, cand_vars, score_vars>>

(***************************************************************************)
(* The suggestions notebook.                                               *)
(***************************************************************************)
\* scaler = joblib.load(...); clf = joblib.load(...)
LoadModels ==
    /\ Running("LoadModels")
    /\ scaler' = scaler_pkl
    /\ clf' = classifier_pkl
    /\ pc' = NextStep(pc)
    /\ io_log' = Append(io_log, [cell |-> pc, call |-> "joblib.load"])
    /\ UNCHANGED <<scrape_vars, plot_vars, failed, env, input_vars, train_vars, pkl_vars,
                   cohort_vars, ref_vars, cand_vars, score_vars>>

\* section1_df_full = pd.read_sql_query('SELECT * FROM section1_db;', con1)
LoadTable ==
    /\ Running("LoadTable")
    /\ section1_df_full' = section1_db
    /\ pc' = NextStep(pc)
    /\ io_log' = Append(io_log, [cell |-> pc, call |-> "read_sql_query"])
    /\ UNCHANGED <<scrape_vars, plot_vars, failed, env, input_vars, train_vars, pkl_vars, scaler, clf,
                   quantile_limit, top_projects, X_cleaned, ref_vars,
                   cand_vars, score_vars>>

\* the cell that selects the top projects, on the frame df:
\* percent_funded, quantile_limit, top_projects, X, X_cleaned
TopProjectsCell(build, frame, qq) ==
    LET df == AssignPercentFunded(frame)
        limit == Quantile(build, Column(df, "percent_funded"), qq)
        top == SelectTop(df, limit)
    IN  [df |-> df,
         quantile_limit |-> limit,
         top_projects |-> top,
         X_cleaned |-> FillNa(DropAllNull(SelectFeatures(top)))]

SelectTopProjects ==
    /\ Running("SelectTopProjects")
    /\ \E b \in Builds("numpy") :
        \E r \in {TopProjectsCell(b, section1_df_full, q)} :
            /\ section1_df_full' = r.df
            /\ quantile_limit' = r.quantile_limit
            /\ top_projects' = r.top_projects
            /\ X_cleaned' = r.X_cleaned
            /\ env' = Pin("numpy", b,
                          \E o \in LibBuilds.numpy :
                              TopProjectsCell(o, section1_df_full, q).quantile_limit
                                # r.quantile_limit)
    /\ pc' = NextStep(pc)
    /\ UNCHANGED <<io_log, scrape_vars, plot_vars, failed, input_vars, train_vars, pkl_vars, scaler, clf,
                   ref_vars, cand_vars, score_vars>>

\* pd.Series(scaler.transform([x]).ravel(), index=features): the exception
\* raised, the scaler after the call, the Series
Standardize(build, sc, x) ==
    LET r == Transform(build, sc, x)
        ser == NewSeries(r.out, features)
    IN  [raised |-> IF r.raised # "" THEN r.raised ELSE ser.raised,
         self |-> r.self,
         out |-> ser.out]

\* avg_top_projects = X_cleaned.mean();
\* top_project_std = pd.Series(scaler.transform([avg_top_projects]).ravel(),
\*                             index=features)
AverageTopProjects ==
    /\ Running("AverageTopProjects")
    /\ \E b \in Builds("sklearn") :
        \E avg \in {Mean(X_cleaned)} :
            \E r \in {Standardize(b, scaler, avg)} :
                /\ avg_top_projects' = avg
                /\ scaler' = r.self
                /\ failed' = r.raised
                /\ top_project_std' = IF r.raised = "" THEN r.out ELSE top_project_std
                /\ pc' = IF r.raised = "" THEN NextStep(pc) ELSE pc
                /\ env' = Pin("sklearn", b,
                              \E o \in LibBuilds.sklearn : Standardize(o, scaler, avg) # r)
    /\ UNCHANGED <<io_log, scrape_vars, plot_vars, input_vars, train_vars, pkl_vars, clf, cohort_vars,
                   cand_vars, score_vars>>

\* ProcessProject without the standardization of the feature vector
ProcessProjectRaw ==
    /\ Running("ProcessProject")
    /\ \E page \in CandidatePages :
        \E p \in {process_project(page)} :
            /\ scraped_html' = page
            /\ failed' = p.raised
            /\ pc' = IF p.raised = "" THEN NextStep(pc) ELSE pc
            /\ IF p.raised # ""
               THEN UNCHANGED <<meta_features, processed_section, feature_vector_std>>
               ELSE /\ meta_features' = p.meta_features
                    /\ processed_section' = p.processed_section
                    /\ feature_vector_std' = [index |-> features, values |-> p.meta_features]
    /\ io_log' = Append(io_log, [cell |-> pc, call |-> "requests.get"])
    /\ UNCHANGED <<scrape_vars, plot_vars, env, scaler, input_vars, train_vars, pkl_vars, clf,
                   cohort_vars, ref_vars, score_vars>>

\* meta_features, processed_section = feature_engineering.process_project(hyperlink);
\* feature_vector_std = pd.Series(scaler.transform([meta_features]).ravel(),
\*                                index=features)
ProcessProject ==
    /\ Running("ProcessProject")
    /\ \E page \in CandidatePages, b \in Builds("sklearn") :
        \E p \in {process_project(page)} :
            /\ scraped_html' = page
            /\ IF p.raised # ""
               THEN /\ failed' = p.raised
                    /\ pc' = pc
                    /\ UNCHANGED <<meta_features, processed_section,
                                   feature_vector_std, scaler, env>>
               ELSE \E r \in {Standardize(b, scaler, p.meta_features)} :
                    /\ meta_features' = p.meta_features
                    /\ processed_section' = p.processed_section
                    /\ scaler' = r.self
                    /\ failed' = r.raised
                    /\ feature_vector_std' =
                         IF r.raised = "" THEN r.out ELSE feature_vector_std
                    /\ pc' = IF r.raised = "" THEN NextStep(pc) ELSE pc
                    /\ env' = Pin("sklearn", b,
                                  \E o \in LibBuilds.sklearn :
                                      Standardize(o, scaler, p.meta_features) # r)
    /\ io_log' = Append(io_log, [cell |-> pc, call |-> "requests.get"])
    /\ UNCHANGED <<scrape_vars, plot_vars, input_vars, train_vars, pkl_vars, clf, cohort_vars,
                   ref_vars, score_vars>>

\* FeatureRanks with the last len(features) coefficients
FeatureRanksTail ==
    /\ Running("FeatureRanks")
    /\ \E ser \in {NewSeries(SubSeq(clf, Len(clf) - Min(Len(clf), Len(features)) + 1,
                                    Len(clf)), features)} :
        /\ failed' = ser.raised
        /\ feature_ranks' = IF ser.raised = "" THEN ser.out ELSE feature_ranks
        /\ pc' = IF ser.raised = "" THEN NextStep(pc) ELSE pc
    /\ UNCHANGED <<io_log, scrape_vars, plot_vars, env, input_vars, train_vars, pkl_vars, scaler, clf,
                   cohort_vars, ref_vars, cand_vars, user_project_score,
                   top_project_score>>

\* feature_ranks = pd.Series(clf.coef_.T.ravel()[:len(features)], index=features)
FeatureRanks ==
    /\ Running("FeatureRanks")
    /\ \E ser \in {NewSeries(SubSeq(clf, 1, Min(Len(clf), Len(features))), features)} :
        /\ failed' = ser.raised
        /\ feature_ranks' = IF ser.raised = "" THEN ser.out ELSE feature_ranks
        /\ pc' = IF ser.raised = "" THEN NextStep(pc) ELSE pc
    /\ UNCHANGED <<io_log, scrape_vars, plot_vars, env, input_vars, train_vars, pkl_vars, scaler, clf,
                   cohort_vars, ref_vars, cand_vars, user_project_score,
                   top_project_score>>

\* user_project_score = np.multiply(feature_vector_std[predictive_features],
\*                                  feature_ranks[predictive_features]);
\* top_project_score likewise from top_project_std
WeightedScores ==
    /\ Running("WeightedScores")
    /\ \E b \in Builds("pandas") :
        \E user \in {Score(b, feature_vector_std, feature_ranks, predictive_features)},
           top \in {Score(b, top_project_std, feature_ranks, predictive_features)} :
            /\ user_project_score' = IF user.raised = "" THEN user.out ELSE user_project_score
            /\ top_project_score' =
                 IF user.raised = "" /\ top.raised = "" THEN top.out ELSE top_project_score
            /\ failed' = IF user.raised # "" THEN user.raised ELSE top.raised
            /\ pc' = IF user.raised = "" /\ top.raised = "" THEN NextStep(pc) ELSE pc
            /\ env' = Pin("pandas", b,
                          \E o \in LibBuilds.pandas :
                              Score(o, feature_vector_std, feature_ranks, predictive_features)
                                # user)
    /\ UNCHANGED <<io_log, scrape_vars, plot_vars, input_vars, train_vars, pkl_vars, scaler, clf, cohort_vars,
                   ref_vars, cand_vars, feature_ranks>>

\* pd.DataFrame([a, b], index=['Your project', 'Top projects']).T
\* .reset_index(): one row per label of a, in the order of a, the value of b
\* taken under the same label
ScoreFrame(a, b) ==
    [i \in DOMAIN a.index |->
        [index |-> a.index[i],
         Your_project |-> a.values[i],
         Top_projects |-> IF a.index[i] \in Range(b.index) THEN At(b, a.index[i]) ELSE NaN]]

\* pd.melt(frame, id_vars='index', value_vars=['Your project', 'Top projects'],
\* var_name=' '): the rows of the first column, then those of the second
Melt(frame) ==
    [i \in 1..(2 * Len(frame)) |->
        IF i <= Len(frame)
        THEN [index |-> frame[i].index, variable |-> "Your project",
              value |-> frame[i].Your_project]
        ELSE [index |-> frame[i - Len(frame)].index, variable |-> "Top projects",
              value |-> frame[i - Len(frame)].Top_projects]]

\* messy = pd.DataFrame([...]).T.reset_index(); tidy = pd.melt(messy, ...)
TidyScores ==
    /\ Running("TidyScores")
    /\ \E frame \in {ScoreFrame(user_project_score, top_project_score)} :
        /\ messy' = frame
        /\ tidy' = Melt(frame)
    /\ pc' = NextStep(pc)
    /\ UNCHANGED <<io_log, scrape_vars, failed, env, input_vars, train_vars, pkl_vars, scaler, clf,
                   cohort_vars, ref_vars, cand_vars, score_vars, yticklabels>>

\* plt.yticks(np.arange(n), ticklabels): the texts of the n ticks
YTicks(build, n, ticklabels) ==
    IF build = "strict" /\ n # Len(ticklabels)
    THEN [raised |-> "ValueError", out |-> <<>>]
    ELSE [raised |-> "",
          out |-> [i \in 1..n |-> IF i <= Len(ticklabels) THEN ticklabels[i] ELSE ""]]

\* sns.factorplot(data=tidy, y='index', x='value', hue=' ', kind='bar'): one
\* group of bars per value of the index column, in the order of appearance;
\* plt.yticks(np.arange(len(predictive_features)), labels)
DrawPlot ==
    /\ Running("DrawPlot")
    /\ \E b \in Builds("matplotlib") :
        \E r \in {YTicks(b, Len(predictive_features), labels)} :
            /\ failed' = r.raised
            /\ yticklabels' = r.out
            /\ pc' = IF r.raised = "" THEN NextStep(pc) ELSE pc
            /\ env' = Pin("matplotlib", b,
                          \E o \in LibBuilds.matplotlib :
                              YTicks(o, Len(predictive_features), labels) # r)
    /\ UNCHANGED <<io_log, scrape_vars, input_vars, train_vars, pkl_vars, scaler, clf, cohort_vars,
                   ref_vars, cand_vars, score_vars, messy, tidy>>

\* the normalizer applied to the raw text
NormalizeText ==
    /\ pc = "TextNormalizer"
    /\ \E n \in {TextNormalizer(scraped_html.html)} :
        /\ processed_section' = n
        /\ failed' = n.raised
        /\ pc' = IF n.raised = "" THEN "extract" ELSE pc
    /\ UNCHANGED <<io_log, scrape_vars, env, input_vars, train_vars, pkl_vars, scaler, clf,
                   cohort_vars, ref_vars, scraped_html, meta_features,
                   feature_vector_std, score_vars, plot_vars>>

\* the extractor applied to the raw text
ExtractFeatures ==
    /\ pc = "extract"
    /\ meta_features' = extract(scraped_html.html)
    /\ pc' = "extracted"
    /\ UNCHANGED <<io_log, scrape_vars, failed, env, input_vars, train_vars, pkl_vars, scaler, clf,
                   cohort_vars, ref_vars, scraped_html, processed_section,
                   feature_vector_std, score_vars, plot_vars>>

Extraction == NormalizeText \/ ExtractFeatures

(***************************************************************************)
(* The scraper notebook.                                                   *)
(***************************************************************************)
\* df_sample = df_USD.sample(...): the row IDs (index labels) of the sample,
\* in the order of the sample; the labels are those of the rows of df, none
\* of them twice
df_sample == [i \in 1..SampleRows |-> 100 + ((i * 7) % 10) * 10 + i]

\* the values starting_point and ending_point are edited to
Points == 0..(SampleRows + 1)

\* df[a:b] for non-negative a and b: the rows at positions a .. b-1 that exist
Slice(df, a, b) == SubSeq(df, a + 1, Min(b, Len(df)))

\* RequestNumber counting the requests from 1
RequestNumberFromOne(count, start) == count + 1 + start

\* the request number of the progress line: request_count + starting_point
RequestNumber(count, start) == count + start

\* frame.loc[index, 'scraped_HTML'] = value: the row labelled index is
\* overwritten, or appended when there is none
SetLoc(frame, index, value) ==
    IF \E i \in DOMAIN frame : frame[i].index = index
    THEN [i \in DOMAIN frame |->
             IF frame[i].index = index
             THEN [index |-> index, scraped_HTML |-> value]
             ELSE frame[i]]
    ELSE Append(frame, [index |-> index, scraped_HTML |-> value])

\* the scraper notebook runs none of the other two notebooks' cells
pipeline_vars ==
    <<pc, failed, env, input_vars, train_vars, pkl_vars, scaler, clf,
      cohort_vars, ref_vars, cand_vars, score_vars, plot_vars, io_log>>

\* the loop cell up to the for statement
StartScraper ==
    /\ scrape_pc = "start"
    /\ scraped_collection' = <<>>
    /\ request_count' = 0
    /\ displayed' = NoOutput
    /\ iterrows' = Slice(df_sample, starting_point, ending_point)
    /\ runs' = Append(runs, starting_point)
    /\ scrape_pc' = "loop"
    /\ UNCHANGED <<pipeline_vars, starting_point, ending_point, reported, file_name, halts, shown>>

\* one pass of the loop body: the request, the progress line, the count,
\* the record
ScrapeRow ==
    /\ scrape_pc = "loop"
    /\ iterrows # <<>>
    /\ \E response \in {"<Response [200]>", "<Response [404]>"} :
        scraped_collection' = SetLoc(scraped_collection, Head(iterrows), response)
    /\ displayed' = [request |-> RequestNumber(request_count, starting_point),
                     row_id |-> Head(iterrows)]
    /\ shown' = Append(shown, displayed'.request)
    /\ request_count' = request_count + 1
    /\ iterrows' = Tail(iterrows)
    /\ UNCHANGED <<pipeline_vars, scrape_pc, starting_point, ending_point, reported, file_name,
                   halts, runs>>

\* requests.get raises (a timeout after 20 seconds, a refused connection):
\* the exception ends the cell where it stands
RequestFails ==
    /\ scrape_pc = "loop"
    /\ iterrows # <<>>
    /\ halts < MaxHalts
    /\ halts' = halts + 1
    /\ scrape_pc' = "halted"
    /\ UNCHANGED <<pipeline_vars, starting_point, ending_point, iterrows, request_count, displayed,
                   scraped_collection, reported, file_name, runs, shown>>

\* after the loop: print('# of projects scraped:', len(scraped_collection))
ReportScraped ==
    /\ scrape_pc = "loop"
    /\ iterrows = <<>>
    /\ reported' = Len(scraped_collection)
    /\ scrape_pc' = "dump"
    /\ UNCHANGED <<pipeline_vars, starting_point, ending_point, iterrows, request_count, displayed,
                   scraped_collection, file_name, halts, runs, shown>>

\* joblib.dump(scraped_collection, 'scraped_collection_{}-{}.pkl'.format(
\*     starting_point, ending_point - 1))
DumpCollection ==
    /\ scrape_pc = "dump"
    /\ file_name' = [first |-> starting_point, last |-> ending_point - 1]
    /\ scrape_pc' = "done"
    /\ UNCHANGED <<pipeline_vars, starting_point, ending_point, iterrows, request_count, displayed,
                   scraped_collection, reported, halts, runs, shown>>

\* after a halt, starting_point is edited to the number after the last one
\* displayed (left alone when the run displayed none) and the cell is run
\* again
Restart ==
    /\ scrape_pc = "halted"
    /\ starting_point' = IF displayed = NoOutput THEN starting_point
                         ELSE displayed.request + 1
    /\ scrape_pc' = "start"
    /\ UNCHANGED <<pipeline_vars, ending_point, iterrows, request_count, displayed,
                   scraped_collection, reported, file_name, halts, runs, shown>>

Scraper ==
    \/ StartScraper
    \/ ScrapeRow
    \/ RequestFails
    \/ ReportScraped
    \/ DumpCollection
    \/ Restart

\* the scraper notebook, for any range starting_point <= ending_point
InitScrape ==
    /\ InitNotebook
    /\ section1_db = <<>>
    /\ q = R(19, 20)
    /\ predictive_features = default_predictive_features
    /\ scraped_html = Pending
    /\ pc = "Scraper"
    /\ scaler_pkl = Unfitted
    /\ classifier_pkl = <<>>
    /\ scrape_pc = "start"
    /\ starting_point \in Points
    /\ ending_point \in Points
    /\ starting_point <= ending_point
    /\ iterrows = <<>>
    /\ request_count = 0
    /\ displayed = NoOutput
    /\ scraped_collection = <<>>
    /\ reported = -1
    /\ file_name = NoFile
    /\ halts = 0
    /\ runs = <<>>
    /\ shown = <<>>


Train == TrainPrepare \/ TrainFit \/ TrainClassifier \/ TrainDump

Suggest ==
    \/ LoadModels
    \/ LoadTable
    \/ SelectTopProjects
    \/ AverageTopProjects
    \/ ProcessProject
    \/ FeatureRanks
    \/ WeightedScores
    \/ TidyScores
    \/ DrawPlot

\* the cells up to the reference vector
Reference == LoadModels \/ LoadTable \/ SelectTopProjects \/ AverageTopProjects

Next == Train \/ Suggest

\* the training notebook, then the suggestions notebook on what it saved
Spec == Init /\ [][Next]_vars

\* both notebooks on a table of at most MaxLoadRows rows
SpecTrain == InitTrain /\ [][Next]_vars

\* the suggestions notebook on saved models of any size
SpecLoad == InitLoad /\ [][Suggest]_vars

\* the feature engineering of any raw text
SpecExtract == InitExtract /\ [][Extraction]_vars

\* the reference of any table of at most MaxRows rows
SpecCohort == InitCohort /\ [][Reference]_vars

\* the scraper notebook, halted and run again at most MaxHalts times
SpecScrape == InitScrape /\ [][Scraper]_vars

(***************************************************************************)
(* Properties.                                                             *)
(***************************************************************************)
\* the names of the subset that are feature names
ValidNames == {n \in Range(predictive_features) : n \in Range(features)}

\* score holds, under the labels of the subset, std[n] * feature_ranks[n]
ScoreOf(score, std) ==
    /\ score.index = predictive_features
    /\ Len(score.values) = Len(predictive_features)
    /\ \A n \in ValidNames :
         At(score, n) = VMul(At(std, n), At(feature_ranks, n))

\* C1: once the weighted scores are computed, the candidate's score and the
\* reference's score are labelled by exactly the names of the feature subset
\* and hold, for every name n, standardized value of n times coefficient of n.
C1_ScoreIsProduct ==
    Ran("WeightedScores") =>
        /\ ScoreOf(user_project_score, feature_vector_std)
        /\ ScoreOf(top_project_score, top_project_std)

\* both scores computed for the default subset, from coefficients and
\* standardized values that are not all zero
C1_Witness ==
    /\ Ran("WeightedScores")
    /\ predictive_features = default_predictive_features
    /\ At(user_project_score, "num_images").q # Zero
    /\ At(top_project_score, "num_hyperlinks").q # Zero
    /\ At(feature_ranks, "num_images") # At(feature_ranks, "num_hyperlinks")

\* pledged / goal of row i of the database table
Ratio(i) == VDiv(section1_db[i].data["pledged"], section1_db[i].data["goal"])

\* the rows of the database table at or above the cut that hold a feature
Selected ==
    {i \in DOMAIN section1_db :
        /\ VGe(Ratio(i), quantile_limit)
        /\ \E c \in Range(features) : ~IsNull(section1_db[i].data[c])}

\* the sum over the rows S of column c, a missing value counting 0
RECURSIVE SumOver(_, _)
SumOver(S, c) ==
    IF S = {} THEN Zero
    ELSE LET i == CHOOSE x \in S : TRUE
             v == section1_db[i].data[c]
         IN  RAdd(IF IsNull(v) THEN Zero ELSE v.q, SumOver(S \ {i}, c))

\* avg_top_projects has been assigned
Averaged ==
    Ran("AverageTopProjects") \/ (pc = "AverageTopProjects" /\ failed # "")

\* the two-row cohort of the end-to-end scenario
Scenario1 ==
    << [index |-> 0, data |-> MkData(Int2V(200), Int2V(100), AllZero)],
       [index |-> 1, data |-> MkData(Int2V(50), Int2V(100), TwoImages)] >>

\* C2: the reference is the per-feature mean over exactly the rows whose
\* pledged / goal is at or above the quantile of the ratios of all rows, the
\* rows without any feature dropped and the other missing values counted 0;
\* for the cohort with ratios 2 and 1/2 and quantile 1/2 the cut is 5/4, the
\* first row alone is selected and the mean of num_images is 0.
C2_ReferenceIsMeanOfTop ==
    Averaged =>
        /\ quantile_limit \in
             {Quantile(b, [i \in DOMAIN section1_db |-> Ratio(i)], q) : b \in LibBuilds.numpy}
        /\ {X_cleaned[i].index + 1 : i \in DOMAIN X_cleaned} = Selected
        /\ Len(X_cleaned) = Cardinality(Selected)
        /\ Selected # {} =>
             \A j \in 1..NF :
                avg_top_projects[j]
                  = Num(RDiv(SumOver(Selected, features[j]), R(Cardinality(Selected), 1)))
        /\ (section1_db = Scenario1 /\ q = R(1, 2)) =>
             /\ quantile_limit = Num(R(5, 4))
             /\ [i \in DOMAIN top_projects |-> top_projects[i].index] = <<0>>
             /\ avg_top_projects[Pos(features, "num_images")] = Int2V(0)

\* the scenario's reference has been averaged
C2_Witness ==
    /\ Averaged
    /\ section1_db = Scenario1
    /\ q = R(1, 2)

\* the row labels of the selected top projects
TopIndex == {top_projects[i].index : i \in DOMAIN top_projects}

\* C3: a row whose success ratio equals the quantile cut is among the top
\* projects, and no row whose ratio is below the cut is.
C3_QuantileInclusive ==
    Ran("SelectTopProjects") =>
        \A i \in DOMAIN section1_df_full :
            LET r == section1_df_full[i]
            IN  /\ (~IsNull(quantile_limit) /\ r.data["percent_funded"] = quantile_limit)
                     => r.index \in TopIndex
                /\ VLt(r.data["percent_funded"], quantile_limit) => r.index \notin TopIndex

\* a row sits exactly on a finite cut, another one lies below it
C3_Witness ==
    /\ Ran("SelectTopProjects")
    /\ IsNum(quantile_limit)
    /\ \E i, j \in DOMAIN section1_df_full :
        /\ section1_df_full[i].data["percent_funded"] = quantile_limit
        /\ section1_df_full[i].index \in TopIndex
        /\ VLt(section1_df_full[j].data["percent_funded"], quantile_limit)

\* the rows of the database table whose goal is 0 or missing
NoGoal ==
    {i \in DOMAIN section1_db :
        LET g == section1_db[i].data["goal"] IN IsNull(g) \/ g.q = Zero}

\* the success ratios of the rows of S, in table order from position i on
RECURSIVE RatiosOf(_, _)
RatiosOf(S, i) ==
    IF i > Len(section1_db) THEN <<>>
    ELSE (IF i \in S THEN <<Ratio(i)>> ELSE <<>>) \o RatiosOf(S, i + 1)

\* C4: a row whose goal is 0 or missing never stops the selection and is
\* left out of the cohort: the cut is the quantile of the other rows' ratios,
\* and the row is neither a top project nor part of a feature mean.
C4_NoGoalRowsExcluded ==
    /\ (pc = "SelectTopProjects" => failed = "")
    /\ Ran("SelectTopProjects") =>
        /\ quantile_limit \in
             {Quantile(b, RatiosOf(DOMAIN section1_db \ NoGoal, 1), q) : b \in LibBuilds.numpy}
        /\ \A i \in NoGoal : (i - 1) \notin TopIndex
        /\ \A i \in DOMAIN X_cleaned : (X_cleaned[i].index + 1) \notin NoGoal

\* C5: when no row is left after the quantile cut and the removal of the rows
\* without data, an EmptyCohort condition is reported: no reference vector is
\* produced and nothing is standardized or scored as a reference.
C5_EmptyCohortReported ==
    (Ran("SelectTopProjects") /\ X_cleaned = <<>>) =>
        /\ avg_top_projects = <<>>
        /\ top_project_std = EmptySeries
        /\ top_project_score = EmptySeries
        /\ Averaged => failed = "EmptyCohort"

\* C6: a feature subset with a name that is no label of the standardized
\* vector or of the coefficients makes score fail with a lookup error, and no
\* score is returned, not even for the valid names.
C6_UnknownNameFails ==
    (Range(predictive_features) # ValidNames) =>
        /\ ~Ran("WeightedScores")
        /\ user_project_score = EmptySeries
        /\ top_project_score = EmptySeries
        /\ (pc = "WeightedScores" /\ failed # "") => failed = "KeyError"

\* C7: the standardized reference and the standardized candidate are both
\* computed with the parameters the training notebook fitted, once, on its
\* cleaned table; the suggestions notebook loads them and never refits.
C7_OneFittedScaler ==
    /\ Ran("TrainFit") => train_scaler = Fit(train_X_cleaned)
    /\ Ran("TrainDump") => scaler_pkl = train_scaler
    /\ Ran("LoadModels") => scaler = train_scaler
    /\ Ran("AverageTopProjects") =>
         top_project_std.values = ZScores(train_scaler, avg_top_projects)
    /\ Ran("ProcessProject") =>
         feature_vector_std.values = ZScores(train_scaler, meta_features)

\* both vectors standardized, by a scaler fitted on rows that differ
C7_Witness ==
    /\ Ran("ProcessProject")
    /\ \E j \in 1..NF : train_scaler.var_[j] # Zero
    /\ top_project_std.values # feature_vector_std.values

\* transform of x by the loaded scaler gives std again and leaves the scaler
\* as it is
Repeats(x, std) ==
    \A b \in Builds("sklearn") :
        LET r == Transform(b, scaler, x)
        IN  r.raised = "" /\ r.self = scaler /\ r.out = std.values

\* C8: transform leaves the fitted parameters alone and is a function of its
\* input: after the transforms the notebook has made, a further transform of
\* the same feature vector gives the standardized vector of the first time.
C8_TransformRepeatable ==
    /\ Ran("AverageTopProjects") => Repeats(avg_top_projects, top_project_std)
    /\ Ran("ProcessProject") =>
        /\ Repeats(meta_features, feature_vector_std)
        /\ meta_features = avg_top_projects => feature_vector_std = top_project_std

\* the candidate's feature vector is the reference's: the same input went
\* through transform twice, with parameters that change it
C8_Witness ==
    /\ Ran("ProcessProject")
    /\ meta_features = avg_top_projects
    /\ \E j \in 1..NF : scaler.mean_[j] # Zero

\* C9: what is scored, for the candidate and for the reference, is the raw
\* feature vector standardized once.
C9_ScoredOnceStandardized ==
    Ran("WeightedScores") =>
        \A n \in ValidNames :
            LET j == Pos(features, n)
            IN  /\ At(user_project_score, n)
                     = VMul(ZScores(scaler, meta_features)[j], clf[j])
                /\ At(top_project_score, n)
                     = VMul(ZScores(scaler, avg_top_projects)[j], clf[j])

\* a score of a feature whose standardized value differs from its raw value
C9_Witness ==
    /\ Ran("WeightedScores")
    /\ \E n \in ValidNames :
        LET j == Pos(features, n)
        IN  /\ scaler.mean_[j] # Zero
            /\ scaler.var_[j] \notin {Zero, One}
            /\ clf[j].q # Zero
            /\ At(user_project_score, n) # NaN

\* C10 as stated: parameters that do not cover exactly the 19 features stop
\* the run with an error: the standardizer's at the first transform, the
\* coefficients' when feature_ranks is built.
C10_MismatchAlwaysFails ==
    /\ Ran("AverageTopProjects") => Len(scaler.mean_) = NF /\ Len(scaler.var_) = NF
    /\ Ran("FeatureRanks") => Len(clf) = NF

\* C10, amended: a standardizer whose parameters number neither 19 nor 1, and
\* a coefficient vector of fewer than 19 entries, stop the run with a
\* ValueError; a longer coefficient vector is cut to its first 19 entries,
\* which feature_ranks holds under the 19 names in order.
C10_MismatchFailsOrTruncates ==
    /\ Ran("AverageTopProjects") => Len(scaler.mean_) \in {1, NF}
    /\ (pc = "AverageTopProjects" /\ Len(scaler.mean_) \notin {1, NF}) =>
         failed \in {"", "ValueError"}
    /\ Ran("FeatureRanks") =>
        /\ Len(clf) >= NF
        /\ feature_ranks.index = features
        /\ feature_ranks.values = [j \in 1..NF |-> clf[j]]
    /\ (pc = "FeatureRanks" /\ Len(clf) < NF) => failed \in {"", "ValueError"}

\* a coefficient vector of 18 entries has stopped the run
C10_Witness ==
    /\ pc = "FeatureRanks"
    /\ failed = "ValueError"
    /\ Len(clf) < NF
    /\ feature_ranks = EmptySeries

\* the factors a standardized vector is scaled by
ScaleFactors == {R(-2, 1), Zero, R(1, 2), R(3, 1)}

\* the Series ser with every value multiplied by c
Scaled(ser, c) ==
    [index |-> ser.index,
     values |-> [i \in DOMAIN ser.values |-> VMul(ser.values[i], Num(c))]]

\* the score of std times c is the score of std, times c
Linear(std, score) ==
    \A c \in ScaleFactors, b \in Builds("pandas") :
        Score(b, Scaled(std, c), feature_ranks, predictive_features)
          = Return(Scaled(score, c))

\* C11: with the coefficients and the feature subset of the run, the score of
\* a standardized vector whose every value is multiplied by a constant c is
\* the score of the vector with every entry multiplied by c (candidate and
\* reference alike).
C11_ScoreLinear ==
    Ran("WeightedScores") =>
        /\ Linear(feature_vector_std, user_project_score)
        /\ Linear(top_project_std, top_project_score)

\* scores were computed of which one is not zero, so that scaling changes it
C11_Witness ==
    /\ Ran("WeightedScores")
    /\ \E n \in ValidNames :
         /\ IsNum(At(user_project_score, n))
         /\ At(user_project_score, n).q # Zero
         /\ At(feature_ranks, n).q # Zero

\* the label that describes a name of the default subset
LabelOf ==
    [n \in Range(default_predictive_features) |->
        CASE n = "num_hyperlinks" -> "hyperlinks"
          [] n = "num_images" -> "images"
          [] n = "num_apple_words" -> "innovation words"
          [] n = "num_exclms" -> "exclamation marks"
          [] n = "percent_bolded" -> "bolded text"
          [] n = "num_words" -> "length of description"]

\* the plot as a table: the text of tick i with the two bars drawn at it
Triples ==
    [i \in DOMAIN yticklabels |->
        [feature_label |-> yticklabels[i],
         candidate_score |-> messy[i].Your_project,
         reference_score |-> messy[i].Top_projects]]

\* C12: the plot holds one (label, candidate score, reference score) per name
\* of the feature subset, in the order of the subset; the scores of entry i
\* are those of the i-th name and the label of entry i describes that name.
C12_TriplesInCallerOrder ==
    Ran("DrawPlot") =>
        /\ Len(Triples) = Len(predictive_features)
        /\ \A i \in DOMAIN Triples :
             LET n == predictive_features[i]
             IN  /\ messy[i].index = n
                 /\ Triples[i].candidate_score = At(user_project_score, n)
                 /\ Triples[i].reference_score = At(top_project_score, n)
                 /\ n \in DOMAIN LabelOf => Triples[i].feature_label = LabelOf[n]

\* C13: the default subset and the labels are 6 each, and the tick drawn for
\* each name of the default subset carries the label that describes it
\* (num_hyperlinks: hyperlinks, num_images: images, num_apple_words:
\* innovation words, num_exclms: exclamation marks, percent_bolded: bolded
\* text, num_words: length of description).
C13_LabelsComplete ==
    /\ Len(labels) = Len(default_predictive_features)
    /\ \A i, j \in DOMAIN labels : labels[i] = labels[j] => i = j
    /\ (Ran("DrawPlot") /\ predictive_features = default_predictive_features) =>
         /\ Len(yticklabels) = Len(default_predictive_features)
         /\ \A i \in DOMAIN yticklabels :
              yticklabels[i] = LabelOf[default_predictive_features[i]]

\* the plot of the default subset has been drawn
C13_Witness ==
    /\ Ran("DrawPlot")
    /\ predictive_features = default_predictive_features
    /\ Len(yticklabels) = Len(default_predictive_features)

\* C14: when a name of the feature subset has no label, the plot is never
\* drawn; no tick is left without text or carries the label of another
\* feature.
C14_UnlabelledNameFails ==
    (\E n \in Range(predictive_features) : n \notin DOMAIN LabelOf) =>
        /\ ~Ran("DrawPlot")
        /\ \A i \in DOMAIN yticklabels :
             /\ yticklabels[i] # ""
             /\ predictive_features[i] \in DOMAIN LabelOf
             /\ yticklabels[i] = LabelOf[predictive_features[i]]

\* the names of a list are pairwise different
Distinct(names) == \A i, j \in DOMAIN names : names[i] = names[j] => i = j

\* C15: the default subset lists 6 different names (hyperlinks, images,
\* innovation words, exclamation marks, share of bolded text, words), each
\* among the 19 different feature names, and computing the weighted scores
\* of the default subset never stops on a name that is not found.
C15_DefaultSubsetOfFeatures ==
    /\ Len(features) = 19
    /\ Distinct(features)
    /\ Len(default_predictive_features) = 6
    /\ Distinct(default_predictive_features)
    /\ Range(default_predictive_features) =
         {"num_hyperlinks", "num_images", "num_apple_words", "num_exclms",
          "percent_bolded", "num_words"}
    /\ Range(default_predictive_features) \subseteq Range(features)
    /\ predictive_features = default_predictive_features =>
         ~(pc = "WeightedScores" /\ failed # "")

\* the default subset has been scored against 19 labelled coefficients
C15_Witness ==
    /\ Ran("WeightedScores")
    /\ predictive_features = default_predictive_features
    /\ feature_ranks.index = features
    /\ user_project_score.index = default_predictive_features

\* the raw text given to the normalizer and the extractor
RawText == scraped_html.html

\* the number of tokens of the raw text that are in S
Count(S) == Cardinality({i \in DOMAIN RawText : RawText[i] \in S})

\* the extracted value of a feature
Feature(name) == meta_features[Pos(features, name)]

\* the value is a number, neither missing nor infinite, and not negative
FiniteNonNegative(v) == IsNum(v) /\ v.s = One /\ RLe(Zero, v.q)

\* the extractor has returned
Extracted == pc = "extracted"

\* C16: extract returns a value for each of the 19 feature names, each a
\* finite number that is not negative; the counts of paragraphs, bolded
\* spans, images, videos, embedded videos, animated images and hyperlinks
\* are the numbers of their tags in the input, 0 when there is none.
C16_ExtractTotal ==
    /\ failed = ""
    /\ Extracted =>
        /\ Len(meta_features) = 19
        /\ Len(meta_features) = Len(features)
        /\ \A j \in DOMAIN meta_features : FiniteNonNegative(meta_features[j])
        /\ Feature("num_paragraphs") = Int2V(Count({"<p>"}))
        /\ Feature("num_bolded") = Int2V(Count({"<b>"}))
        /\ Feature("num_images") = Int2V(Count({"<img>"}))
        /\ Feature("num_videos") = Int2V(Count({"<video>"}))
        /\ Feature("num_youtubes") = Int2V(Count({"<youtube>"}))
        /\ Feature("num_gifs") = Int2V(Count({"<gif>"}))
        /\ Feature("num_hyperlinks") = Int2V(Count({"<a>"}))
        /\ Feature("num_words") = Int2V(Count(Words))
        /\ Feature("num_exclms") = Int2V(Count({"!"}))

\* the features of a text without words and paragraphs, but with an image
C16_Witness ==
    /\ Extracted
    /\ Count(Words) = 0
    /\ Count({"<p>"}) = 0
    /\ Count({"<img>"}) > 0

\* C17: a ratio or an average whose denominator is 0 is 0: without words the
\* shares of capitals, of innovation words and of bolded text are 0, without
\* sentences the exclamation share and the words per sentence are 0,
\* without paragraphs the sentences and the words per paragraph are 0; none
\* is missing and no error is raised.
C17_ZeroDenominatorGivesZero ==
    Extracted =>
        /\ failed = ""
        /\ Count(Words) = 0 =>
             /\ Feature("percent_all_caps") = Int2V(0)
             /\ Feature("percent_apple_words") = Int2V(0)
             /\ Feature("percent_bolded") = Int2V(0)
        /\ Len(processed_section.sentences) = 0 =>
             /\ Feature("num_sents") = Int2V(0)
             /\ Feature("avg_words_per_sent") = Int2V(0)
             /\ Feature("percent_exclms") = Int2V(0)
        /\ Count({"<p>"}) = 0 =>
             /\ Feature("avg_sents_per_paragraph") = Int2V(0)
             /\ Feature("avg_words_per_paragraph") = Int2V(0)
        /\ (Count({"!"}) = 0 /\ Len(processed_section.sentences) = 0) =>
             /\ Feature("num_exclms") = Int2V(0)
             /\ Feature("percent_exclms") = Int2V(0)

\* the features of a text with exclamation marks and no sentence
C17_Witness ==
    /\ Extracted
    /\ Len(processed_section.sentences) = 0
    /\ Count({"!"}) > 0
    /\ Count({"<p>"}) = 0

\* the value lies between 0 and 1
InUnitInterval(v) == FiniteNonNegative(v) /\ RLe(v.q, One)

\* C18, as claimed: the four ratio features lie between 0 and 1.
C18_AllRatiosInUnitInterval ==
    Extracted =>
        /\ InUnitInterval(Feature("percent_all_caps"))
        /\ InUnitInterval(Feature("percent_exclms"))
        /\ InUnitInterval(Feature("percent_apple_words"))
        /\ InUnitInterval(Feature("percent_bolded"))

\* C18, amended: the shares of capitals, of innovation words and of bolded
\* text lie between 0 and 1; the exclamation share is the number of
\* exclamation marks over the number of sentences (0 without sentences),
\* which is not negative and exceeds 1 when the marks outnumber the
\* sentences.
C18_RatiosBounded ==
    Extracted =>
        /\ InUnitInterval(Feature("percent_all_caps"))
        /\ InUnitInterval(Feature("percent_apple_words"))
        /\ InUnitInterval(Feature("percent_bolded"))
        /\ FiniteNonNegative(Feature("percent_exclms"))
        /\ Count(Words) > 0 =>
             /\ Feature("percent_all_caps") =
                  Num(R(Count({w \in Words : IsAllCaps(w)}), Count(Words)))
             /\ Feature("percent_apple_words") =
                  Num(R(Count({w \in Words : IsAppleWord(w)}), Count(Words)))
        /\ Len(processed_section.sentences) > 0 =>
             Feature("percent_exclms") =
                Num(R(Count({"!"}), Len(processed_section.sentences)))

\* the features of a text with more exclamation marks than sentences, and
\* with a word in capitals
C18_Witness ==
    /\ Extracted
    /\ RLt(One, Feature("percent_exclms").q)
    /\ Feature("percent_all_caps") = Int2V(1)

\* process_project has been called
Asked == scraped_html # Pending

\* C19: when the page of the project is absent, empty or a failure
\* indicator, process_project stops the run with InputUnavailable: no meta
\* features, no standardized vector and no scores of the project exist
\* then or later.
C19_InputUnavailableStops ==
    (Asked /\ Unavailable(scraped_html)) =>
        /\ pc = "ProcessProject"
        /\ failed = "InputUnavailable"
        /\ meta_features = <<>>
        /\ feature_vector_std = EmptySeries
        /\ user_project_score = EmptySeries

\* the scraper handed over a failure and the run stopped
C19_Witness ==
    /\ scraped_html.status = "failed"
    /\ failed = "InputUnavailable"

\* the normalizer has returned
Normalized == pc \in {"extract", "extracted"}

\* C20: the normalizer never raises, whether the input is empty or its tags
\* do not match; of the empty input the normalized text is empty and the counts of
\* paragraphs, bolded spans and media are 0.
C20_NormalizerTotal ==
    /\ failed = ""
    /\ Normalized =>
        /\ processed_section.raised = ""
        /\ RawText = <<>> =>
             /\ processed_section.text = <<>>
             /\ processed_section.sentences = <<>>
             /\ processed_section.paragraphs = 0
             /\ processed_section.bolded = 0
             /\ processed_section.bolded_chars = 0
             /\ processed_section.images = 0
             /\ processed_section.videos = 0
             /\ processed_section.youtubes = 0
             /\ processed_section.gifs = 0
             /\ processed_section.hyperlinks = 0

\* the empty input has been normalized
C20_Witness ==
    /\ Normalized
    /\ RawText = <<>>

\* the cells that extract, standardize, build the reference, score and
\* assemble
CoreCells ==
    { "SelectTopProjects", "AverageTopProjects", "ProcessProject",
      "FeatureRanks", "WeightedScores", "TidyScores", "DrawPlot" }

\* C21: no operation of the core performs I/O: the page of the candidate
\* project has been fetched by the time the cell that extracts its features
\* is invoked, and no call that reads or writes outside the process is made
\* by a cell that extracts, standardizes, builds the reference, scores or
\* assembles.
C21_CoreWithoutIO ==
    /\ Running("ProcessProject") =>
          \E i \in DOMAIN io_log : io_log[i].call = "requests.get"
    /\ \A i \in DOMAIN io_log : io_log[i].cell \notin CoreCells

\* the rows of df in the order p, every row under its own label
Permuted(df, p) == [i \in DOMAIN df |-> df[p[i]]]

LabelsOf(df) == {df[i].index : i \in DOMAIN df}

C23_InputsUnmodified ==
    [][/\ pc = "SelectTopProjects" => section1_df_full' = section1_df_full
       /\ pc \in {"AverageTopProjects", "ProcessProject"} => scaler' = scaler
       /\ pc = "WeightedScores" =>
            UNCHANGED <<feature_vector_std, top_project_std, feature_ranks,
                        predictive_features>>]_vars

\* the weight the classifier learned for the column of the training matrix
\* that held standardized f
LearnedWeight(f) == clf_full[Pos(X_full_columns, f)]

\* C24: the coefficient used to score feature f is the weight the classifier
\* learned for the training-matrix column that held standardized f: the
\* first 19 columns of the training matrix are the features in the order of
\* the training list, the list that names the coefficients is that list name
\* for name, and every score is the standardized value times that weight.
C24_CoefficientsAligned ==
    /\ Ran("FeatureRanks") =>
        /\ features = train_features
        /\ SubSeq(X_full_columns, 1, NF) = features
        /\ \A f \in Range(features) : At(feature_ranks, f) = LearnedWeight(f)
    /\ Ran("WeightedScores") =>
        \A n \in ValidNames :
            /\ At(user_project_score, n) = VMul(At(feature_vector_std, n), LearnedWeight(n))
            /\ At(top_project_score, n) = VMul(At(top_project_std, n), LearnedWeight(n))

\* scores computed from a classifier trained on the 19 features and the
\* n-grams, whose first and last 19 weights differ
C24_Witness ==
    /\ Ran("WeightedScores")
    /\ Len(clf_full) = NF + NumNgrams
    /\ clf_full[NF] # clf_full[NF + NumNgrams]
    /\ At(user_project_score, "num_images").q # Zero

\* the loop cell is running or has run with the starting_point of the state
InRun == scrape_pc \in {"loop", "halted", "dump", "done"}

\* the positions of the range of the first run at which the sample has a row
RowsOfRange == {p \in runs[1]..(ending_point - 1) : p + 1 \in DOMAIN df_sample}

\* C25: the request number displayed after the k-th request of a run (k
\* counted from 0) is starting_point + k, the position in the sample of the
\* row just scraped; and when every run after a halt starts at the last
\* displayed number plus 1, no position is displayed twice and, once the loop
\* has completed, every row of the range has been scraped exactly once.
C25_RequestNumberIsPosition ==
    /\ InRun /\ displayed # NoOutput =>
        /\ displayed.request = starting_point + (request_count - 1)
        /\ displayed.request + 1 \in DOMAIN df_sample
        /\ df_sample[displayed.request + 1] = displayed.row_id
    /\ \A i, j \in DOMAIN shown : shown[i] = shown[j] => i = j
    /\ scrape_pc \in {"dump", "done"} => Range(shown) = RowsOfRange

\* a range of three rows scraped in three runs, two of them halted
C25_Witness ==
    /\ scrape_pc = "done"
    /\ halts = 2
    /\ Len(runs) = 3
    /\ runs[1] < runs[2] /\ runs[2] < runs[3]
    /\ Len(shown) = 3

\* C26: when the loop has completed, scraped_collection holds exactly one
\* entry for each sample row at the positions starting_point ..
\* ending_point - 1 and no other entry, the reported number of projects is
\* ending_point - starting_point, and the file name carries starting_point
\* and ending_point - 1.
C26_FileNameStatesRange ==
    scrape_pc = "done" =>
        /\ \A p \in starting_point..(ending_point - 1) :
            /\ p + 1 \in DOMAIN df_sample
            /\ Cardinality({i \in DOMAIN scraped_collection :
                              scraped_collection[i].index = df_sample[p + 1]}) = 1
        /\ \A i \in DOMAIN scraped_collection :
            \E p \in starting_point..(ending_point - 1) :
                /\ p + 1 \in DOMAIN df_sample
                /\ scraped_collection[i].index = df_sample[p + 1]
        /\ reported = ending_point - starting_point
        /\ file_name = [first |-> starting_point, last |-> ending_point - 1]

\* a - b of two values of the same scale
VSub(a, b) ==
    IF IsNull(a) \/ IsNull(b) THEN NaN
    ELSE [k |-> "num", q |-> RSub(a.q, b.q), s |-> a.s]

\* a == b on float64: False as soon as one side is NaN
VEq(a, b) ==
    /\ IsNum(a) /\ IsNum(b)
    /\ a.q = b.q
    /\ a.s = b.s \/ a.q = Zero

\* C27: the candidate's and the reference's scores are computed with the
\* same coefficients and the same subset: for every feature n of the subset
\* candidate_score[n] - reference_score[n] is coefficients[n] times
\* (candidate_std[n] - reference_std[n]), and the two scores are equal
\* whenever the two standardized values are equal or the coefficient is 0.
C27_ScoreDifference ==
    Ran("WeightedScores") =>
        \A n \in ValidNames :
            /\ user_project_score.index = top_project_score.index
            /\ VSub(At(user_project_score, n), At(top_project_score, n))
                 = VMul(VSub(At(feature_vector_std, n), At(top_project_std, n)),
                        At(feature_ranks, n))
            /\ (\/ VEq(At(feature_vector_std, n), At(top_project_std, n))
                \/ At(feature_ranks, n) = Int2V(0))
                 => VEq(At(user_project_score, n), At(top_project_score, n))

\* every row of the table has a number for its success ratio
FiniteRatios ==
    /\ Len(section1_db) > 0
    /\ \A i \in DOMAIN section1_db : IsNum(Ratio(i))

====
